---- MODULE Spec2Model ----
(***************************************************************************)
(* Kissan Dost backend (backend/main.py): the /api/chat request pipeline,  *)
(* the /api/prices endpoint, and the single-threaded asyncio event loop    *)
(* that interleaves concurrently handled requests.                         *)
(*                                                                         *)
(* Python values are modelled as records carrying a `type` field so that   *)
(* None, unbound locals, strings, lists and dicts can be compared.  Text   *)
(* built by f-strings is the sequence of its literal and interpolated      *)
(* pieces, in order.                                                       *)
(***************************************************************************)
EXTENDS Integers, Sequences, FiniteSets, TLC

VARIABLES
    form,       \* form[r]: the multipart form fields request r was submitted with
    task,       \* task[r]: the chat() coroutine of request r: its position and locals
    wxCall,     \* wxCall[r]: the GET that r issued to the weather provider
    llmCall,    \* llmCall[r]: the call that r made to the completion provider
    http,       \* http[r]: what the transport returned to the caller of request r
    running,    \* the task that holds the event-loop thread, or NoTask
    pricesOut   \* the body last returned by GET /api/prices

vars == <<form, task, wxCall, llmCall, http, running, pricesOut>>

(***************************************************************************)
(* Bounds of the model.                                                    *)
(***************************************************************************)
MaxImgLen == 1      \* uploaded images hold at most this many bytes
MaxChoices == 2     \* a completion holds at most this many choices

Reqs == {"r1", "r2"}            \* the concurrently handled chat requests
NoTask == "none"

(***************************************************************************)
(* Python values.                                                          *)
(***************************************************************************)
None == [type |-> "NoneType"]
Unbound == [type |-> "unbound"]
Str(parts) == [type |-> "str", parts |-> parts]
List(elems) == [type |-> "list", elems |-> elems]
Dict(items) == [type |-> "dict", items |-> items]     \* items: set of <<key, value>>
Bytes(bs) == [type |-> "bytes", bytes |-> bs]
UploadFile == [type |-> "UploadFile"]

HasKey(d, k) == \E p \in d.items : p[1] = k
GetItem(d, k) == (CHOOSE p \in d.items : p[1] = k)[2]

\* bool(x) as Python evaluates it in `if x` / `x if y else z`
Truthy(v) ==
    CASE v.type = "NoneType" -> FALSE
      [] v.type = "dict" -> v.items # {}
      [] v.type = "bytes" -> Len(v.bytes) > 0
      [] v.type = "UploadFile" -> TRUE      \* no __bool__/__len__: object default
      [] OTHER -> TRUE

(***************************************************************************)
(* Module-level constants of main.py.                                      *)
(***************************************************************************)
SYSTEM_PROMPT ==
    Str(<<"You are Kissan Dost, an expert Agricultural Advisor AI for Pakistani farmers. ... ALWAYS structure your response in EXACTLY this format with these three sections: ## I. (Immediate Action) ## II. (Detailed Recommendation) ## III. (Market & Climate Context) RULES: ...">>)

TextModel == "llama-3.3-70b-versatile"
VisionModel == "llama-3.2-90b-vision-preview"
UnboundModel == "<unbound>"             \* `model` before line 108/110 assigns it

DefaultLanguage == "ur"
DefaultLatitude == "31.5204"
DefaultLongitude == "74.3587"

DataUriPrefix == "data:image/jpeg;base64,"

\* get_mandi_prices(): a fresh dict literal on every call
get_mandi_prices ==
    [wheat     |-> [price |-> 4200, unit |-> "40kg", trend |-> "up"],
     cotton    |-> [price |-> 8500, unit |-> "40kg", trend |-> "stable"],
     rice      |-> [price |-> 5800, unit |-> "40kg", trend |-> "up"],
     sugarcane |-> [price |-> 350,  unit |-> "40kg", trend |-> "stable"],
     maize     |-> [price |-> 2800, unit |-> "40kg", trend |-> "down"]]

(***************************************************************************)
(* base64.b64encode(img_bytes).decode(): the standard alphabet, three      *)
(* bytes to four characters, '=' padding.                                  *)
(***************************************************************************)
B64Alphabet ==
    <<"A","B","C","D","E","F","G","H","I","J","K","L","M","N","O","P",
      "Q","R","S","T","U","V","W","X","Y","Z","a","b","c","d","e","f",
      "g","h","i","j","k","l","m","n","o","p","q","r","s","t","u","v",
      "w","x","y","z","0","1","2","3","4","5","6","7","8","9","+","/">>

B64Char(n) == B64Alphabet[(n % 64) + 1]

B64Group(g) ==
    LET b1 == g[1]
        b2 == IF Len(g) >= 2 THEN g[2] ELSE 0
        b3 == IF Len(g) >= 3 THEN g[3] ELSE 0
        n == b1 * 65536 + b2 * 256 + b3
    IN  <<B64Char(n \div 262144),
          B64Char(n \div 4096),
          IF Len(g) >= 2 THEN B64Char(n \div 64) ELSE "=",
          IF Len(g) >= 3 THEN B64Char(n) ELSE "=">>

RECURSIVE b64encode(_)
b64encode(bs) ==
    IF Len(bs) = 0 THEN <<>>
    ELSE IF Len(bs) <= 3 THEN B64Group(bs)
    ELSE B64Group(SubSeq(bs, 1, 3)) \o b64encode(SubSeq(bs, 4, Len(bs)))

(***************************************************************************)
(* The inbound form of POST /api/chat and its validation by the declared   *)
(* parameters (Form(...), Form("ur"), File(None), Form(31.5204), ...).     *)
(***************************************************************************)
Absent == "<absent>"
FloatLiterals == {"31.5204", "74.3587", "24.8607", "67.0011"}

\* latitude/longitude pairs a client sends: none, a valid pair, a malformed latitude
FormCoords == {<<Absent, Absent>>, <<"24.8607", "67.0011">>, <<"north", "67.0011">>}

Forms ==
    {[message |-> m, language |-> l, image |-> i, latitude |-> c[1], longitude |-> c[2]] :
        m \in {Absent, "gandum ka ilaj", "kapas ki bimari"},
        l \in {Absent, "en"},
        i \in {Absent, "upload"},
        c \in FormCoords}

\* mutant: only the presence of message is validated
ValidFormLax(f) == f.message # Absent

\* message is required; latitude and longitude must parse as floats
ValidForm(f) ==
    /\ f.message # Absent
    /\ f.latitude \in FloatLiterals \cup {Absent}
    /\ f.longitude \in FloatLiterals \cup {Absent}

\* the arguments chat() is called with: defaults fill the absent fields
ChatArgs(f) ==
    [message   |-> f.message,
     language  |-> IF f.language = Absent THEN DefaultLanguage ELSE f.language,
     image     |-> IF f.image = Absent THEN None ELSE UploadFile,
     latitude  |-> IF f.latitude = Absent THEN DefaultLatitude ELSE f.latitude,
     longitude |-> IF f.longitude = Absent THEN DefaultLongitude ELSE f.longitude]

(***************************************************************************)
(* The providers, at their interface.                                      *)
(***************************************************************************)
WeatherUrl(lat, lon) ==
    Str(<<"https://api.open-meteo.com/v1/forecast?latitude=", lat, "&longitude=", lon,
          "&current=temperature_2m,relative_humidity_2m,precipitation&daily=precipitation_sum&timezone=Asia/Karachi">>)

SnapshotLahore ==
    Dict({<<"current", "{'temperature_2m': 31.4, 'relative_humidity_2m': 48, 'precipitation': 0.0}">>,
          <<"daily", "{'precipitation_sum': [0.0, 1.2]}">>})
SnapshotNoCurrent == Dict({<<"daily", "{'precipitation_sum': [0.0, 1.2]}">>})
NotJson == [type |-> "not-json"]

\* what the weather provider (or the network) may do with one GET
WeatherOutcomes ==
    {[kind |-> "transport_error"]}
    \cup [kind : {"response"}, status_code : {500}, body : {NotJson}]
    \cup [kind : {"response"}, status_code : {200},
          body : {SnapshotLahore, SnapshotNoCurrent, NotJson}]

Message(text) == [content |-> Str(<<text>>)]
\* a completion with n choices; choice i carries its own text
ChoiceList(n) == [i \in 1..n |-> [message |-> Message("advice #" \o ToString(n - i + 1))]]

\* the usage the provider reports for a completion with n choices
TotalTokens(n) == 640 + 172 * n

\* what the completion provider may do with one call
CompletionOutcomes ==
    {[kind |-> "api_error"]}
    \cup {[kind |-> "completion", choices |-> ChoiceList(n),
           usage |-> [total_tokens |-> TotalTokens(n)]] : n \in 0..MaxChoices}

\* uploads: the first n bytes of a JPEG file, n = 0 being the empty upload
JpegBytes == <<255, 216, 255, 224, 0, 16, 74, 70, 73, 70>>
ImageContents == {SubSeq(JpegBytes, 1, n) : n \in 0..MaxImgLen}

(***************************************************************************)
(* State of one request.                                                   *)
(***************************************************************************)
NotCalled == [state |-> "none"]
NoResponse == [type |-> "pending"]

NewTask ==
    [pc |-> "idle", args |-> Unbound, weather |-> Unbound, prices |-> Unbound,
     context |-> Unbound, messages |-> Unbound, img_bytes |-> Unbound,
     img_b64 |-> Unbound, model |-> UnboundModel, response |-> Unbound]

Init ==
    /\ form = [r \in Reqs |-> Unbound]
    /\ task = [r \in Reqs |-> NewTask]
    /\ wxCall = [r \in Reqs |-> NotCalled]
    /\ llmCall = [r \in Reqs |-> NotCalled]
    /\ http = [r \in Reqs |-> NoResponse]
    /\ running = NoTask
    /\ pricesOut = Unbound

\* an exception leaves chat(): the transport answers 500 and the task ends
Raise(r, exc) ==
    /\ task' = [task EXCEPT ![r].pc = "raised"]
    /\ http' = [http EXCEPT ![r] = [type |-> "error", status_code |-> 500, exc |-> exc]]
    /\ running' = NoTask

(***************************************************************************)
(* POST /api/chat: arrival, validation, and get_weather up to its await.   *)
(***************************************************************************)
Submit(r, f) ==
    /\ task[r].pc = "idle"
    /\ running = NoTask
    /\ form' = [form EXCEPT ![r] = f]
    /\ IF ValidForm(f)
       THEN /\ task' = [task EXCEPT ![r].args = ChatArgs(f), ![r].pc = "await_weather"]
            /\ wxCall' = [wxCall EXCEPT ![r] =
                   [state |-> "pending",
                    url |-> WeatherUrl(ChatArgs(f).latitude, ChatArgs(f).longitude)]]
            /\ UNCHANGED http
       ELSE /\ task' = [task EXCEPT ![r].pc = "rejected"]
            /\ http' = [http EXCEPT ![r] = [type |-> "error", status_code |-> 422,
                                           exc |-> "RequestValidationError"]]
            /\ UNCHANGED wxCall
    /\ UNCHANGED <<llmCall, running, pricesOut>>

\* the exception, if any, that `await client.get(url)` / `resp.json()` raise
WeatherRaises(out) ==
    IF out.kind = "transport_error" THEN "httpx.TransportError"
    ELSE IF out.status_code = 200 /\ out.body = NotJson THEN "json.JSONDecodeError"
    ELSE "no"

\* resp.json() if resp.status_code == 200 else None
get_weather(out) == IF out.status_code = 200 THEN out.body ELSE None

\* mutant: `weather` kept in a module-level name shared by all requests
WeatherReturnsShared(r, out) ==
    /\ task[r].pc = "await_weather"
    /\ running = NoTask
    /\ wxCall' = [wxCall EXCEPT ![r] =
           [state |-> "replied", url |-> wxCall[r].url, outcome |-> out]]
    /\ IF WeatherRaises(out) # "no"
       THEN Raise(r, WeatherRaises(out))
       ELSE /\ task' = [x \in Reqs |->
                   IF x = r
                   THEN [task[x] EXCEPT !.weather = get_weather(out), !.pc = "prices"]
                   ELSE [task[x] EXCEPT !.weather = get_weather(out)]]
            /\ running' = r
            /\ UNCHANGED http
    /\ UNCHANGED <<form, llmCall, pricesOut>>

\* the weather provider answers (or the transport fails) and chat() resumes
WeatherReturns(r, out) ==
    /\ task[r].pc = "await_weather"
    /\ running = NoTask
    /\ wxCall' = [wxCall EXCEPT ![r] =
           [state |-> "replied", url |-> wxCall[r].url, outcome |-> out]]
    /\ IF WeatherRaises(out) # "no"
       THEN Raise(r, WeatherRaises(out))
       ELSE /\ task' = [task EXCEPT ![r].weather = get_weather(out), ![r].pc = "prices"]
            /\ running' = r
            /\ UNCHANGED http
    /\ UNCHANGED <<form, llmCall, pricesOut>>

\* prices = get_mandi_prices()
ReadPrices(r) ==
    /\ task[r].pc = "prices"
    /\ running = r
    /\ task' = [task EXCEPT ![r].prices = get_mandi_prices, ![r].pc = "context"]
    /\ UNCHANGED <<form, wxCall, llmCall, http, running, pricesOut>>

\* the f-string of the context block
ContextText(weather, prices) ==
    <<"\nCurrent Weather: ",
      IF Truthy(weather) THEN GetItem(weather, "current") ELSE "N/A",
      "\nMandi Prices (PKR): Wheat: ", ToString(prices.wheat.price), "/", prices.wheat.unit,
      ", \nCotton: ", ToString(prices.cotton.price),
      ", Rice: ", ToString(prices.rice.price), "\n">>

BuildContext(r) ==
    /\ task[r].pc = "context"
    /\ running = r
    /\ IF Truthy(task[r].weather) /\ ~HasKey(task[r].weather, "current")
       THEN Raise(r, "KeyError")
       ELSE /\ task' = [task EXCEPT
                   ![r].context = Str(ContextText(task[r].weather, task[r].prices)),
                   ![r].pc = "messages"]
            /\ UNCHANGED <<http, running>>
    /\ UNCHANGED <<form, wxCall, llmCall, pricesOut>>

TextContent(context, language, message) ==
    Str(<<"Context:\n">> \o context.parts
        \o <<"\n\nFarmer Query (", language, "): ", message>>)

\* messages = [system, user]
InitialMessages(context, args) ==
    List(<<[role |-> "system", content |-> SYSTEM_PROMPT],
           [role |-> "user",
            content |-> TextContent(context, args.language, args.message)]>>)

PrepareMessages(r) ==
    /\ task[r].pc = "messages"
    /\ running = r
    /\ task' = [task EXCEPT ![r].messages = InitialMessages(task[r].context, task[r].args),
                            ![r].pc = "branch"]
    /\ UNCHANGED <<form, wxCall, llmCall, http, running, pricesOut>>

\* `if image:` -- the truth value of the image argument
ImageProvided(args) == Truthy(args.image)

\* else-branch: model = "llama-3.3-70b-versatile"
TextBranch(r) ==
    /\ task[r].pc = "branch"
    /\ running = r
    /\ ~ImageProvided(task[r].args)
    /\ task' = [task EXCEPT ![r].model = TextModel, ![r].pc = "invoke"]
    /\ UNCHANGED <<form, wxCall, llmCall, http, running, pricesOut>>

\* if-branch: `await image.read()` starts; the read may complete in place (an
\* upload held in memory) or hand the loop back (a spooled upload read off-thread)
StartImageRead(r, yields) ==
    /\ task[r].pc = "branch"
    /\ running = r
    /\ ImageProvided(task[r].args)
    /\ task' = [task EXCEPT ![r].pc = "await_image"]
    /\ running' = IF yields THEN NoTask ELSE r
    /\ UNCHANGED <<form, wxCall, llmCall, http, pricesOut>>

\* img_bytes = await image.read()
ImageReadReturns(r, bs) ==
    /\ task[r].pc = "await_image"
    /\ running \in {NoTask, r}
    /\ task' = [task EXCEPT ![r].img_bytes = Bytes(bs), ![r].pc = "encode"]
    /\ running' = r
    /\ UNCHANGED <<form, wxCall, llmCall, http, pricesOut>>

\* img_b64 = base64.b64encode(img_bytes).decode()
EncodeImage(r) ==
    /\ task[r].pc = "encode"
    /\ running = r
    /\ task' = [task EXCEPT ![r].img_b64 = Str(b64encode(task[r].img_bytes.bytes)),
                            ![r].pc = "vision"]
    /\ UNCHANGED <<form, wxCall, llmCall, http, running, pricesOut>>

\* mutant: the image part is left out of the replaced content
VisionContentTextOnly(context, args, img_b64) ==
    List(<<[type |-> "text",
            text |-> Str(<<"Context:\n">> \o context.parts
                         \o <<"\n\nAnalyze this crop image and provide advice (",
                              args.language, "): ", args.message>>)]>>)

\* the two-part content that replaces messages[1]["content"]
VisionContent(context, args, img_b64) ==
    List(<<[type |-> "text",
            text |-> Str(<<"Context:\n">> \o context.parts
                         \o <<"\n\nAnalyze this crop image and provide advice (",
                              args.language, "): ", args.message>>)],
           [type |-> "image_url",
            image_url |-> [url |-> Str(<<DataUriPrefix>> \o img_b64.parts)]]>>)

\* mutant: the content is replaced but the model is left at the text model
VisionBranchTextModel(r) ==
    /\ task[r].pc = "vision"
    /\ running = r
    /\ task' = [task EXCEPT
           ![r].messages = List([@.elems EXCEPT ![2].content =
                                    VisionContent(task[r].context, task[r].args, task[r].img_b64)]),
           ![r].model = TextModel,
           ![r].pc = "invoke"]
    /\ UNCHANGED <<form, wxCall, llmCall, http, running, pricesOut>>

\* messages[1]["content"] = [...]; model = "llama-3.2-90b-vision-preview"
VisionBranch(r) ==
    /\ task[r].pc = "vision"
    /\ running = r
    /\ task' = [task EXCEPT
           ![r].messages = List([@.elems EXCEPT ![2].content =
                                    VisionContent(task[r].context, task[r].args, task[r].img_b64)]),
           ![r].model = VisionModel,
           ![r].pc = "invoke"]
    /\ UNCHANGED <<form, wxCall, llmCall, http, running, pricesOut>>

\* mutant: the completion call is made before the image branch has run
InvokeBeforeBranch(r) ==
    /\ task[r].pc \in {"branch", "invoke"}
    /\ running = r
    /\ llmCall' = [llmCall EXCEPT ![r] =
           [state |-> "pending", model |-> task[r].model, messages |-> task[r].messages,
            temperature |-> "0.3", max_tokens |-> 2000]]
    /\ task' = [task EXCEPT ![r].pc = "in_completion"]
    /\ UNCHANGED <<form, wxCall, http, running, pricesOut>>

\* mutant: the completion call is awaited, handing the loop back while it is
\* outstanding
InvokeCompletionAwaited(r) ==
    /\ task[r].pc = "invoke"
    /\ running = r
    /\ llmCall' = [llmCall EXCEPT ![r] =
           [state |-> "pending", model |-> task[r].model, messages |-> task[r].messages,
            temperature |-> "0.3", max_tokens |-> 2000]]
    /\ task' = [task EXCEPT ![r].pc = "in_completion"]
    /\ running' = NoTask
    /\ UNCHANGED <<form, wxCall, http, pricesOut>>

\* groq.chat.completions.create(...): a synchronous call made on the loop thread,
\* so the task keeps the thread until the provider has answered
InvokeCompletion(r) ==
    /\ task[r].pc = "invoke"
    /\ running = r
    /\ llmCall' = [llmCall EXCEPT ![r] =
           [state |-> "pending", model |-> task[r].model, messages |-> task[r].messages,
            temperature |-> "0.3", max_tokens |-> 2000]]
    /\ task' = [task EXCEPT ![r].pc = "in_completion"]
    /\ UNCHANGED <<form, wxCall, http, running, pricesOut>>

\* mutant: a failed completion is caught and answered with a fallback advisory
CompletionFailedFallback(r) ==
    /\ task' = [task EXCEPT ![r].pc = "done"]
    /\ http' = [http EXCEPT ![r] =
           [type |-> "ok", status_code |-> 200,
            body |-> [response |-> Str(<<"N/A">>), weather |-> task[r].weather,
                      prices |-> task[r].prices, model |-> task[r].model,
                      latency_ms |-> 0]]]
    /\ running' = NoTask

\* the completion call raised: nothing catches it
CompletionFailed(r) == Raise(r, "groq.APIError")

CompletionReturns(r, out) ==
    /\ task[r].pc = "in_completion"
    /\ running = r
    /\ llmCall' = [llmCall EXCEPT ![r] =
           [state |-> "replied", model |-> @.model, messages |-> @.messages,
            temperature |-> @.temperature, max_tokens |-> @.max_tokens, outcome |-> out]]
    /\ IF out.kind = "api_error"
       THEN CompletionFailed(r)
       ELSE /\ task' = [task EXCEPT ![r].response = out, ![r].pc = "return"]
            /\ UNCHANGED <<http, running>>
    /\ UNCHANGED <<form, wxCall, pricesOut>>

\* mutant: the last choice is taken instead of the first
ResponseBodyLastChoice(response, weather, prices, model) ==
    [response   |-> response.choices[Len(response.choices)].message.content,
     weather    |-> weather,
     prices     |-> prices,
     model      |-> model,
     latency_ms |-> response.usage.total_tokens]

\* the dict chat() returns
ResponseBody(response, weather, prices, model) ==
    [response   |-> response.choices[1].message.content,
     weather    |-> weather,
     prices     |-> prices,
     model      |-> model,
     latency_ms |-> response.usage.total_tokens]

Return(r) ==
    /\ task[r].pc = "return"
    /\ running = r
    /\ IF Len(task[r].response.choices) = 0
       THEN Raise(r, "IndexError")
       ELSE /\ http' = [http EXCEPT ![r] =
                   [type |-> "ok", status_code |-> 200,
                    body |-> ResponseBody(task[r].response, task[r].weather,
                                          task[r].prices, task[r].model)]]
            /\ task' = [task EXCEPT ![r].pc = "done"]
            /\ running' = NoTask
    /\ UNCHANGED <<form, wxCall, llmCall, pricesOut>>

(***************************************************************************)
(* GET /api/prices                                                         *)
(***************************************************************************)
PricesEndpoint ==
    /\ running = NoTask
    /\ pricesOut' = get_mandi_prices
    /\ UNCHANGED <<form, task, wxCall, llmCall, http, running>>

Next ==
    \/ \E r \in Reqs, f \in Forms : Submit(r, f)
    \/ \E r \in Reqs, out \in WeatherOutcomes : WeatherReturns(r, out)
    \/ \E r \in Reqs : ReadPrices(r)
    \/ \E r \in Reqs : BuildContext(r)
    \/ \E r \in Reqs : PrepareMessages(r)
    \/ \E r \in Reqs : TextBranch(r)
    \/ \E r \in Reqs, yields \in BOOLEAN : StartImageRead(r, yields)
    \/ \E r \in Reqs, bs \in ImageContents : ImageReadReturns(r, bs)
    \/ \E r \in Reqs : EncodeImage(r)
    \/ \E r \in Reqs : VisionBranch(r)
    \/ \E r \in Reqs : InvokeCompletion(r)
    \/ \E r \in Reqs, out \in CompletionOutcomes : CompletionReturns(r, out)
    \/ \E r \in Reqs : Return(r)
    \/ PricesEndpoint

Spec == Init /\ [][Next]_vars

(***************************************************************************)
(* Vocabulary of the properties.                                           *)
(***************************************************************************)
FiveCommodities == {"wheat", "cotton", "rice", "sugarcane", "maize"}

Submitted(r) == task[r].pc # "idle"
WeatherReplied(r) == wxCall[r].state = "replied"
Invoked(r) == llmCall[r].state # "none"
CompletionReplied(r) == llmCall[r].state = "replied"
Succeeded(r) == http[r].type = "ok"

\* the weather call failed: the transport failed or the status is not a success
WeatherCallFailed(r) ==
    /\ WeatherReplied(r)
    /\ \/ wxCall[r].outcome.kind = "transport_error"
       \/ wxCall[r].outcome.status_code # 200

\* the completion call failed
CompletionCallFailed(r) ==
    /\ CompletionReplied(r)
    /\ llmCall[r].outcome.kind = "api_error"

UserContent(r) == llmCall[r].messages.elems[2].content

\* C1: whenever the weather call of a request has failed (non-success status or
\* transport failure), the request does not end in an error unless the completion
\* provider was invoked, and a returned response has weather null and all five
\* commodities in prices.
C1_WeatherFailureIsSoft ==
    \A r \in Reqs :
        WeatherCallFailed(r) =>
            /\ task[r].pc = "raised" => Invoked(r)
            /\ Succeeded(r) =>
                  /\ http[r].body.weather = None
                  /\ DOMAIN http[r].body.prices = FiveCommodities

\* C2: whenever the completion call of a request has failed, the request has ended
\* in an error outcome and no response object was returned for it.
C2_CompletionFailureIsFatal ==
    \A r \in Reqs :
        CompletionCallFailed(r) =>
            /\ http[r].type = "error"
            /\ http[r].status_code = 500
            /\ task[r].pc = "raised"

C2_Witness ==
    \E r \in Reqs : CompletionCallFailed(r) /\ WeatherReplied(r) /\ task[r].pc = "raised"

\* C3: the model sent to the completion provider is the text model for every
\* request without an image and the vision model for every request with a
\* non-empty image, and two requests with the same image input are sent the same
\* model whatever their query, language, coordinates and weather result are.
C3_ModelDecidedByImage ==
    /\ \A r \in Reqs :
          Invoked(r) =>
             /\ form[r].image = Absent => llmCall[r].model = TextModel
             /\ (form[r].image # Absent /\ task[r].img_bytes.type = "bytes"
                   /\ Len(task[r].img_bytes.bytes) > 0)
                 => llmCall[r].model = VisionModel
    /\ \A r1, r2 \in Reqs :
          (Invoked(r1) /\ Invoked(r2) /\ form[r1].image = form[r2].image
             /\ task[r1].img_bytes = task[r2].img_bytes)
          => llmCall[r1].model = llmCall[r2].model

C3_Witness ==
    \E r1, r2 \in Reqs :
        /\ Invoked(r1) /\ Invoked(r2)
        /\ form[r1].image = Absent /\ llmCall[r1].model = TextModel
        /\ form[r2].image # Absent /\ Len(task[r2].img_bytes.bytes) > 0
        /\ llmCall[r2].model = VisionModel
        /\ form[r1].message # form[r2].message
        /\ form[r1].language # form[r2].language
        /\ form[r1].latitude # form[r2].latitude
        /\ task[r1].weather # task[r2].weather

\* C4: a request whose image attachment holds zero bytes is sent the text model and
\* a plain-text user message with no image part.
C4_EmptyImageIsNoImage ==
    \A r \in Reqs :
        (Invoked(r) /\ form[r].image # Absent /\ task[r].img_bytes = Bytes(<<>>))
        => /\ llmCall[r].model = TextModel
           /\ UserContent(r).type = "str"

\* C5: every message sequence passed to the completion provider has exactly two
\* messages, the system message with SYSTEM_PROMPT unmodified and then the user
\* message; the user content is one text block under the text model and a
\* (text, image_url) pair whose URL begins with data:image/jpeg;base64, under the
\* vision model.
C5_MessageShape ==
    \A r \in Reqs :
        Invoked(r) =>
            LET m == llmCall[r].messages.elems IN
            /\ llmCall[r].messages.type = "list"
            /\ Len(m) = 2
            /\ m[1] = [role |-> "system", content |-> SYSTEM_PROMPT]
            /\ m[2].role = "user"
            /\ llmCall[r].model \in {TextModel, VisionModel}
            /\ llmCall[r].model = TextModel => m[2].content.type = "str"
            /\ llmCall[r].model = VisionModel =>
                  /\ m[2].content.type = "list"
                  /\ Len(m[2].content.elems) = 2
                  /\ m[2].content.elems[1].type = "text"
                  /\ m[2].content.elems[1].text.type = "str"
                  /\ m[2].content.elems[2].type = "image_url"
                  /\ m[2].content.elems[2].image_url.url.parts[1] = DataUriPrefix

C5_Witness ==
    \E r \in Reqs :
        /\ CompletionReplied(r)
        /\ llmCall[r].model = VisionModel
        /\ UserContent(r).type = "list"
        /\ Len(UserContent(r).elems[2].image_url.url.parts) > 1

\* C6: within one request the weather call has returned and the price table has
\* been read before the messages are assembled; the messages passed to the
\* completion provider are the fully assembled ones (with the image part when an
\* image was uploaded); a response is returned only after the completion provider
\* has replied; and the completion provider is never invoked while the weather
\* call is outstanding.
C6_StageOrder ==
    \A r \in Reqs :
        /\ task[r].messages # Unbound =>
              /\ WeatherReplied(r)
              /\ task[r].weather # Unbound
              /\ task[r].prices = get_mandi_prices
              /\ task[r].context # Unbound
        /\ Invoked(r) =>
              /\ task[r].messages # Unbound
              /\ llmCall[r].messages = task[r].messages
              /\ llmCall[r].model = task[r].model
              /\ form[r].image # Absent =>
                    /\ task[r].img_b64 # Unbound
                    /\ UserContent(r).type = "list"
        /\ Succeeded(r) => CompletionReplied(r)
        /\ wxCall[r].state = "pending" => ~Invoked(r)

C6_Witness ==
    \E r \in Reqs :
        /\ Succeeded(r) /\ form[r].image # Absent
        /\ WeatherReplied(r) /\ CompletionReplied(r)

MissingOrMalformed(f) ==
    \/ f.message = Absent
    \/ f.latitude # Absent /\ f.latitude \notin FloatLiterals
    \/ f.longitude # Absent /\ f.longitude \notin FloatLiterals

\* C7: a chat request whose message field is missing or whose fields are malformed
\* is rejected with neither the weather provider nor the completion provider
\* contacted for it.
C7_InvalidInputRejectedEarly ==
    \A r \in Reqs :
        (Submitted(r) /\ MissingOrMalformed(form[r])) =>
            /\ wxCall[r] = NotCalled
            /\ llmCall[r] = NotCalled
            /\ task[r].pc = "rejected"
            /\ http[r].type = "error"

C7_Witness ==
    \E r1, r2 \in Reqs :
        /\ task[r1].pc = "rejected" /\ form[r1].message # Absent
        /\ task[r2].pc = "rejected" /\ form[r2].message = Absent

\* C8: the response of every request that succeeds carries the text of the first
\* choice the completion provider returned, the value the weather call returned
\* (null included), the full price table, the model id sent to the completion
\* provider, and, as latency_ms, the total token count the provider reported.
C8_ResponseIsPipelineOutput ==
    \A r \in Reqs :
        Succeeded(r) =>
            LET body == http[r].body
                wx == wxCall[r].outcome
                completion == llmCall[r].outcome
            IN  /\ http[r].status_code = 200
                /\ body.response = Head(completion.choices).message.content
                /\ wx.status_code = 200 => body.weather = wx.body
                /\ wx.status_code # 200 => body.weather = None
                /\ body.prices = get_mandi_prices
                /\ body.model = llmCall[r].model
                /\ body.latency_ms = completion.usage.total_tokens

C8_Witness ==
    \E r1, r2 \in Reqs :
        /\ Succeeded(r1) /\ http[r1].body.weather = None
        /\ Len(llmCall[r1].outcome.choices) = MaxChoices
        /\ Succeeded(r2) /\ http[r2].body.weather # None
        /\ http[r1].body.latency_ms # http[r2].body.latency_ms

\* what request r's own inputs and the replies to its own calls determine
OwnArgs(r) == ChatArgs(form[r])
OwnWeather(r) ==
    IF wxCall[r].outcome.status_code = 200 THEN wxCall[r].outcome.body ELSE None
OwnContext(r) == Str(ContextText(OwnWeather(r), get_mandi_prices))
OwnModel(r) == IF form[r].image = Absent THEN TextModel ELSE VisionModel
OwnMessages(r) ==
    IF form[r].image = Absent
    THEN InitialMessages(OwnContext(r), OwnArgs(r))
    ELSE List(<<[role |-> "system", content |-> SYSTEM_PROMPT],
                [role |-> "user",
                 content |-> VisionContent(OwnContext(r), OwnArgs(r),
                                           Str(b64encode(task[r].img_bytes.bytes)))]>>)

\* C9: under every interleaving of concurrently handled requests, the model and
\* the messages a request sends and the response it returns are those determined
\* by its own form and the replies to its own calls, and every request and every
\* call of the prices endpoint sees the same five-entry price table.
C9_RequestsIndependent ==
    /\ \A r \in Reqs :
          /\ Invoked(r) =>
                /\ llmCall[r].model = OwnModel(r)
                /\ llmCall[r].messages = OwnMessages(r)
          /\ Succeeded(r) =>
                http[r].body = ResponseBody(llmCall[r].outcome, OwnWeather(r),
                                            get_mandi_prices, OwnModel(r))
          /\ task[r].prices # Unbound =>
                /\ DOMAIN task[r].prices = FiveCommodities
                /\ \A q \in Reqs : task[q].prices # Unbound => task[q].prices = task[r].prices
                /\ pricesOut # Unbound => pricesOut = task[r].prices
    /\ pricesOut # Unbound => DOMAIN pricesOut = FiveCommodities

C9_Witness ==
    \E r1, r2 \in Reqs :
        /\ r1 # r2
        /\ Succeeded(r1) /\ Succeeded(r2)
        /\ form[r1].image # Absent /\ form[r2].image = Absent
        /\ form[r1].message # form[r2].message
        /\ http[r1].body.weather # http[r2].body.weather
        /\ http[r1].body.response # http[r2].body.response
        /\ pricesOut # Unbound

HeldSteps ==
    {"prices", "context", "messages", "branch", "encode", "vision", "invoke",
     "in_completion", "return"}

====
